---- MODULE Spec2Model ----
(***************************************************************************)
(* NBA player points predictor (streamlit_app.py): the data-acquisition    *)
(* and prediction pipeline.                                                *)
(*                                                                         *)
(*   get_player_id / fetch_player_gamelog   cached upstream lookups        *)
(*   get_player_data                        per-season fetch + retry loop  *)
(*   fetch_all_player_data                  thread-pool fan-out            *)
(*   preprocess_game_log                    rolling means, dropna          *)
(*   train_models / main                    selection and report           *)
(*                                                                         *)
(* Four specifications share the definitions:                              *)
(*   Spec       one fetch_all_player_data batch over a roster              *)
(*   SpecMain   one "Analyze Player" run of main                           *)
(*   SpecCache  repeated fetch_player_gamelog calls while time passes      *)
(*   SpecRoll   preprocess_game_log over game logs of up to MaxLen rows    *)
(*                                                                         *)
(* Library calls are modelled by their contract: st.warning / st.error     *)
(* report one signal, st.cache_data(ttl) memoises a function's return      *)
(* value per argument tuple for ttl seconds, model.score returns a number. *)
(***************************************************************************)
EXTENDS Integers, Sequences, FiniteSets, TLC

VARIABLES
    main_pc,        \* position of the top-level control flow
    roster,         \* sequence of player names handed to the pipeline
    gpd_pc,         \* per player: position inside its get_player_data call
    lookup,         \* per player: what the player catalog answered
    player_id,      \* per player: get_player_data's local player_id (0 = None)
    season_idx,     \* per player: index into seasons of the outer loop
    attempt,        \* per player: the inner loop's attempt
    gamelogs,       \* per player: get_player_data's local list gamelogs
    future,         \* per player: outcome of the get_player_data call
    net_log,        \* per player and season: upstream requests issued, in order
    cache,          \* st.cache_data store of fetch_player_gamelog
    clock,          \* seconds
    warnings,       \* number of st.warning signals reported
    errors,         \* number of st.error signals reported
    player_data,    \* fetch_all_player_data's result mapping
    collected,      \* futures already yielded by as_completed
    writes,         \* per key: number of assignments player_data[key] = ...
    game_log,       \* argument of preprocess_game_log (SpecRoll)
    processed_data, \* result of preprocess_game_log
    best_model,     \* first component of train_models' result
    model_results,  \* second component of train_models' result: name -> score
    report,         \* what main displays
    call_log        \* SpecCache: the fetch_player_gamelog calls made so far

vars == <<main_pc, roster, gpd_pc, lookup, player_id, season_idx, attempt,
          gamelogs, future, net_log, cache, clock, warnings, errors,
          player_data, collected, writes, game_log, processed_data,
          best_model, model_results, report, call_log>>

----------------------------------------------------------------------------
(* Bounds of the model *)

MaxGames == 3
MaxLen == 11
MaxCalls == 3
MaxTicks == 3

(* Program constants *)

MAX_RETRIES == 3
CACHE_TTL == 3600
BACKOFF == 2
max_workers == 10
SEASON_CURRENT == "2024-25"
SEASON_PREVIOUS == "2023-24"

seasons == <<SEASON_CURRENT, SEASON_PREVIOUS>>

----------------------------------------------------------------------------
(* Values *)

Range(f) == {f[i] : i \in DOMAIN f}

Players == {"p1", "p2", "p3"}

FullRoster == <<"p1", "p2", "p3">>

\* The upstream player catalog: the id players.find_players_by_full_name
\* gives for a name it knows.
CatalogId(p) == CHOOSE i \in 1..Len(FullRoster) : FullRoster[i] = p

PlayerIds == {CatalogId(p) : p \in Players}

Keys == PlayerIds \X Range(seasons)

\* Python's None and a pandas DataFrame, as values of one shape.
None == [tag |-> "None", rows |-> <<>>]

DataFrame(rows) == [tag |-> "DataFrame", rows |-> rows]

IsNone(v) == v.tag = "None"

Empty(df) == df.rows = <<>>

\* One row of a game log: the columns the pipeline reads.
GameLogRow(s, min, fgm, fga, pts) ==
    [SEASON_ID |-> s, MIN |-> min, FGM |-> fgm, FGA |-> fga, PTS |-> pts]

\* Box-score lines a game can have: a game without minutes or shots, and
\* an ordinary game.
StatLines == { <<0, 0, 0, 0>>, <<30, 5, 10, 12>> }

RowsOf(s) == { GameLogRow(s, l[1], l[2], l[3], l[4]) : l \in StatLines }

SeqsUpTo(S, n) == UNION { [1..k -> S] : k \in 0..n }

\* Game logs the upstream source can deliver for season s.
Tables(s) == SeqsUpTo(RowsOf(s), MaxGames)

TransientErrors == {"ReadTimeout", "ConnectionError"}

\* What one upstream PlayerGameLog request can do.
Ok(rows) == [kind |-> "ok", rows |-> rows]

Failure(kind) == [kind |-> kind, rows |-> <<>>]

Outcomes(s) ==
    { Ok(t) : t \in Tables(s) }
        \cup { Failure(k) : k \in TransientErrors \cup {"malformed"} }

\* The smaller family used where three players run at once.
BatchOutcomes(s) ==
    { Ok(<<>>), Ok(<<GameLogRow(s, 30, 5, 10, 12)>>),
      Failure("ReadTimeout"), Failure("malformed") }

IdOutcomes == {"found", "notfound", "error"}

----------------------------------------------------------------------------
(* Cached lookups *)

\* get_player_id: the id (0 for None) and the signals it reports.
get_player_id(p, r) ==
    CASE r = "found"    -> [value |-> CatalogId(p), warnings |-> 0, errors |-> 0]
      [] r = "notfound" -> [value |-> 0, warnings |-> 1, errors |-> 0]
      [] OTHER          -> [value |-> 0, warnings |-> 0, errors |-> 1]

NoEntry == [present |-> FALSE, value |-> None, stored |-> 0]

\* An entry is served until ttl seconds after it was stored.
CacheHit(key) ==
    /\ cache[key].present
    /\ clock < cache[key].stored + CACHE_TTL

\* Variant of fetch_body whose handler lets ReadTimeout and
\* ConnectionError through to the caller.
fetch_body_reraise(o) ==
    IF o.kind = "ok"
    THEN [raised |-> FALSE, exc |-> "none", value |-> DataFrame(o.rows), errors |-> 0]
    ELSE IF o.kind \in TransientErrors
         THEN [raised |-> TRUE, exc |-> o.kind, value |-> None, errors |-> 0]
         ELSE [raised |-> FALSE, exc |-> "none", value |-> None, errors |-> 1]

\* The body of fetch_player_gamelog with the request's outcome o: every
\* exception is caught, reported with st.error and turned into None.
fetch_body(o) ==
    IF o.kind = "ok"
    THEN [raised |-> FALSE, exc |-> "none", value |-> DataFrame(o.rows), errors |-> 0]
    ELSE [raised |-> FALSE, exc |-> "none", value |-> None, errors |-> 1]

\* fetch_player_gamelog(player_id, season) as callers see it: the cached
\* value on a hit, the body's result otherwise.
fetch_player_gamelog(key, o) ==
    IF CacheHit(key)
    THEN [raised |-> FALSE, exc |-> "none", value |-> cache[key].value,
          errors |-> 0, hit |-> TRUE]
    ELSE LET r == fetch_body(o)
         IN  [raised |-> r.raised, exc |-> r.exc, value |-> r.value,
              errors |-> r.errors, hit |-> FALSE]

\* Variant of cache_after that memoises game logs only, not None.
cache_after_skip_none(key, call) ==
    IF call.hit \/ call.raised \/ IsNone(call.value)
    THEN cache
    ELSE [cache EXCEPT ![key] =
            [present |-> TRUE, value |-> call.value, stored |-> clock]]

\* The store after the call: a computed return value (None included) is
\* memoised; a raised exception stores nothing.
cache_after(key, call) ==
    IF call.hit \/ call.raised
    THEN cache
    ELSE [cache EXCEPT ![key] =
            [present |-> TRUE, value |-> call.value, stored |-> clock]]

----------------------------------------------------------------------------
(* get_player_data, one step per call it makes *)

RECURSIVE Concat(_)
Concat(dfs) ==
    IF dfs = <<>> THEN <<>> ELSE Head(dfs).rows \o Concat(Tail(dfs))

Returned(v) == [kind |-> "value", value |-> v]

Raised == [kind |-> "exception", value |-> None]

Pending == [kind |-> "pending", value |-> None]

pipeline_vars == <<game_log, processed_data, best_model, model_results,
                   report, call_log>>

batch_vars == <<player_data, collected, writes>>

\* Lines 93-95: resolve the identity, return None when there is none.
Resolve(p, r) ==
    /\ gpd_pc[p] = "get_id"
    /\ LET id == get_player_id(p, r)
       IN  /\ lookup' = [lookup EXCEPT ![p] = r]
           /\ warnings' = warnings + id.warnings
           /\ errors' = errors + id.errors
           /\ player_id' = [player_id EXCEPT ![p] = id.value]
           /\ IF id.value = 0
              THEN /\ gpd_pc' = [gpd_pc EXCEPT ![p] = "done"]
                   /\ future' = [future EXCEPT ![p] = Returned(None)]
                   /\ UNCHANGED <<season_idx, attempt, gamelogs>>
              ELSE /\ gpd_pc' = [gpd_pc EXCEPT ![p] = "fetch"]
                   /\ season_idx' = [season_idx EXCEPT ![p] = 1]
                   /\ attempt' = [attempt EXCEPT ![p] = 0]
                   /\ gamelogs' = [gamelogs EXCEPT ![p] = <<>>]
                   /\ UNCHANGED future
    /\ UNCHANGED <<main_pc, roster, net_log, cache, clock>>
    /\ UNCHANGED batch_vars
    /\ UNCHANGED pipeline_vars

\* Lines 100-112: one iteration of the attempt loop for the current season.
\* A transient exception is retried after BACKOFF seconds, or on the last
\* attempt reported and answered with None; any other exception leaves
\* the call; a returned value ends the season's attempts.
Attempt(p, o) ==
    /\ gpd_pc[p] = "fetch"
    /\ LET key       == <<player_id[p], seasons[season_idx[p]]>>
           call      == fetch_player_gamelog(key, o)
           transient == call.raised /\ call.exc \in TransientErrors
           retry     == transient /\ attempt[p] < MAX_RETRIES - 1
           giveup    == transient /\ ~retry
           escaped   == call.raised /\ ~transient
           last      == season_idx[p] = Len(seasons)
       IN  /\ cache' = cache_after(key, call)
           /\ net_log' = IF call.hit THEN net_log
                         ELSE [net_log EXCEPT ![p][season_idx[p]] = Append(@, o)]
           /\ errors' = errors + call.errors + (IF giveup THEN 1 ELSE 0)
           /\ clock' = IF retry THEN clock + BACKOFF ELSE clock
           /\ IF retry
              THEN /\ attempt' = [attempt EXCEPT ![p] = @ + 1]
                   /\ UNCHANGED <<gpd_pc, season_idx, gamelogs, future>>
              ELSE IF giveup \/ escaped
              THEN /\ gpd_pc' = [gpd_pc EXCEPT ![p] = "done"]
                   /\ future' = [future EXCEPT ![p] =
                            IF giveup THEN Returned(None) ELSE Raised]
                   /\ UNCHANGED <<season_idx, attempt, gamelogs>>
              ELSE /\ gamelogs' = IF IsNone(call.value) THEN gamelogs
                                  ELSE [gamelogs EXCEPT ![p] = Append(@, call.value)]
                   /\ attempt' = [attempt EXCEPT ![p] = 0]
                   /\ gpd_pc' = [gpd_pc EXCEPT ![p] = IF last THEN "concat" ELSE "fetch"]
                   /\ season_idx' = [season_idx EXCEPT ![p] = IF last THEN @ ELSE @ + 1]
                   /\ UNCHANGED future
    /\ UNCHANGED <<main_pc, roster, lookup, player_id, warnings>>
    /\ UNCHANGED batch_vars
    /\ UNCHANGED pipeline_vars

\* Variant of Finish in which the worker itself stores its result under
\* its key of the shared mapping.
FinishWritesOwnKey(p) ==
    /\ gpd_pc[p] = "concat"
    /\ gpd_pc' = [gpd_pc EXCEPT ![p] = "done"]
    /\ LET v == IF gamelogs[p] # <<>> THEN DataFrame(Concat(gamelogs[p])) ELSE None
       IN  /\ future' = [future EXCEPT ![p] = Returned(v)]
           /\ IF ~IsNone(v) /\ ~Empty(v)
              THEN /\ player_data' = [q \in DOMAIN player_data \cup {p} |->
                                        IF q = p THEN v ELSE player_data[q]]
                   /\ writes' = [writes EXCEPT ![p] = @ + 1]
              ELSE UNCHANGED <<player_data, writes>>
    /\ UNCHANGED <<main_pc, roster, lookup, player_id, season_idx, attempt,
                   gamelogs, net_log, cache, clock, warnings, errors, collected>>
    /\ UNCHANGED pipeline_vars

\* Lines 113-116: concatenate what was fetched, or None.
Finish(p) ==
    /\ gpd_pc[p] = "concat"
    /\ gpd_pc' = [gpd_pc EXCEPT ![p] = "done"]
    /\ future' = [future EXCEPT ![p] =
            Returned(IF gamelogs[p] # <<>>
                     THEN DataFrame(Concat(gamelogs[p]))
                     ELSE None)]
    /\ UNCHANGED <<main_pc, roster, lookup, player_id, season_idx, attempt,
                   gamelogs, net_log, cache, clock, warnings, errors>>
    /\ UNCHANGED batch_vars
    /\ UNCHANGED pipeline_vars

\* An exception none of get_player_data's handlers catches leaves the call;
\* the future then holds it (what line 131 is written for).
Fault(p) ==
    /\ gpd_pc[p] = "get_id"
    /\ gpd_pc' = [gpd_pc EXCEPT ![p] = "done"]
    /\ future' = [future EXCEPT ![p] = Raised]
    /\ UNCHANGED <<main_pc, roster, lookup, player_id, season_idx, attempt,
                   gamelogs, net_log, cache, clock, warnings, errors>>
    /\ UNCHANGED batch_vars
    /\ UNCHANGED pipeline_vars

----------------------------------------------------------------------------
(* fetch_all_player_data *)

Running == {p \in Players : gpd_pc[p] \in {"get_id", "fetch", "concat"}}

\* Line 122: one future per roster member is submitted to the pool.
Submit ==
    /\ main_pc = "submit"
    /\ main_pc' = "collect"
    /\ gpd_pc' = [p \in Players |-> IF p \in Range(roster) THEN "queued" ELSE gpd_pc[p]]
    /\ UNCHANGED <<roster, lookup, player_id, season_idx, attempt, gamelogs,
                   future, net_log, cache, clock, warnings, errors>>
    /\ UNCHANGED batch_vars
    /\ UNCHANGED pipeline_vars

\* Line 121: a queued call starts when one of the max_workers threads is free.
Start(p) ==
    /\ gpd_pc[p] = "queued"
    /\ Cardinality(Running) < max_workers
    /\ gpd_pc' = [gpd_pc EXCEPT ![p] = "get_id"]
    /\ UNCHANGED <<main_pc, roster, lookup, player_id, season_idx, attempt,
                   gamelogs, future, net_log, cache, clock, warnings, errors>>
    /\ UNCHANGED batch_vars
    /\ UNCHANGED pipeline_vars

\* Variant of Collect that stores every result that is not None.
CollectNoEmptyCheck(p) ==
    /\ main_pc = "collect"
    /\ gpd_pc[p] = "done"
    /\ p \in Range(roster) \ collected
    /\ collected' = collected \cup {p}
    /\ IF future[p].kind = "exception"
       THEN /\ errors' = errors + 1
            /\ UNCHANGED <<player_data, writes, warnings>>
       ELSE IF ~IsNone(future[p].value)
       THEN /\ player_data' = [q \in DOMAIN player_data \cup {p} |->
                                 IF q = p THEN future[p].value ELSE player_data[q]]
            /\ writes' = [writes EXCEPT ![p] = @ + 1]
            /\ UNCHANGED <<warnings, errors>>
       ELSE /\ warnings' = warnings + 1
            /\ UNCHANGED <<player_data, writes, errors>>
    /\ UNCHANGED <<main_pc, roster, gpd_pc, lookup, player_id, season_idx,
                   attempt, gamelogs, future, net_log, cache, clock>>
    /\ UNCHANGED pipeline_vars

\* Variant of Collect that skips a missing result without a warning.
CollectSilent(p) ==
    /\ main_pc = "collect"
    /\ gpd_pc[p] = "done"
    /\ p \in Range(roster) \ collected
    /\ collected' = collected \cup {p}
    /\ IF future[p].kind = "exception"
       THEN /\ errors' = errors + 1
            /\ UNCHANGED <<player_data, writes, warnings>>
       ELSE IF ~IsNone(future[p].value) /\ ~Empty(future[p].value)
       THEN /\ player_data' = [q \in DOMAIN player_data \cup {p} |->
                                 IF q = p THEN future[p].value ELSE player_data[q]]
            /\ writes' = [writes EXCEPT ![p] = @ + 1]
            /\ UNCHANGED <<warnings, errors>>
       ELSE UNCHANGED <<player_data, writes, warnings, errors>>
    /\ UNCHANGED <<main_pc, roster, gpd_pc, lookup, player_id, season_idx,
                   attempt, gamelogs, future, net_log, cache, clock>>
    /\ UNCHANGED pipeline_vars

\* Lines 123-132: as_completed yields a finished future; its result is
\* stored, or its absence reported.
Collect(p) ==
    /\ main_pc = "collect"
    /\ gpd_pc[p] = "done"
    /\ p \in Range(roster) \ collected
    /\ collected' = collected \cup {p}
    /\ IF future[p].kind = "exception"
       THEN /\ errors' = errors + 1
            /\ UNCHANGED <<player_data, writes, warnings>>
       ELSE IF ~IsNone(future[p].value) /\ ~Empty(future[p].value)
       THEN /\ player_data' = [q \in DOMAIN player_data \cup {p} |->
                                 IF q = p THEN future[p].value ELSE player_data[q]]
            /\ writes' = [writes EXCEPT ![p] = @ + 1]
            /\ UNCHANGED <<warnings, errors>>
       ELSE /\ warnings' = warnings + 1
            /\ UNCHANGED <<player_data, writes, errors>>
    /\ UNCHANGED <<main_pc, roster, gpd_pc, lookup, player_id, season_idx,
                   attempt, gamelogs, future, net_log, cache, clock>>
    /\ UNCHANGED pipeline_vars

\* Line 133: every future was yielded; the pool is closed and the mapping
\* returned.
Return ==
    /\ main_pc = "collect"
    /\ collected = Range(roster)
    /\ main_pc' = "returned"
    /\ UNCHANGED <<roster, gpd_pc, lookup, player_id, season_idx, attempt,
                   gamelogs, future, net_log, cache, clock, warnings, errors>>
    /\ UNCHANGED batch_vars
    /\ UNCHANGED pipeline_vars

----------------------------------------------------------------------------
(* preprocess_game_log *)

RECURSIVE Gcd(_, _)
Gcd(a, b) == IF b = 0 THEN a ELSE Gcd(b, a % b)

\* A float, kept exact as a fraction in lowest terms. A zero denominator
\* is what a division by zero leaves: 0/0 is not-a-number, x/0 infinity.
Div(n, d) ==
    IF d = 0
    THEN [num |-> IF n = 0 THEN 0 ELSE 1, den |-> 0]
    ELSE LET g == Gcd(n, d) IN [num |-> n \div g, den |-> d \div g]

Mul(x, k) == IF x.den = 0 THEN x ELSE Div(x.num * k, x.den)

NaN == Div(0, 0)

IsNumber(x) == x.den # 0

features == <<"MIN", "FGM", "FGA">>

target == "PTS"

rolling_windows == <<3, 5, 10>>

min_periods == 1

Fields == Range(features) \cup {target}

Column(rows, f) == [i \in 1..Len(rows) |-> rows[i][f]]

\* Series.rolling(window=w): the running sum and count of observations
\* after row i, row i entering the window and row i - w leaving it.
RECURSIVE RollState(_, _, _)
RollState(xs, w, i) ==
    IF i = 0
    THEN [sum |-> 0, nobs |-> 0]
    ELSE LET prev  == RollState(xs, w, i - 1)
             added == [sum |-> prev.sum + xs[i], nobs |-> prev.nobs + 1]
         IN  IF i > w
             THEN [sum |-> added.sum - xs[i - w], nobs |-> added.nobs - 1]
             ELSE added

\* Variant of rolling_mean with pandas' default min_periods, the window.
rolling_mean_full_window(xs, w) ==
    [i \in 1..Len(xs) |->
        LET st == RollState(xs, w, i)
        IN  IF st.nobs >= w THEN Div(st.sum, st.nobs) ELSE NaN]

\* .rolling(window=w, min_periods=1).mean(): the mean once min_periods
\* observations are in the window, NaN before.
rolling_mean(xs, w) ==
    [i \in 1..Len(xs) |->
        LET st == RollState(xs, w, i)
        IN  IF st.nobs >= min_periods THEN Div(st.sum, st.nobs) ELSE NaN]

\* Lines 135-154. A processed row keeps its index label, its base columns
\* and one rolling column per field and window; dropna removes the rows
\* holding a NaN.
preprocess_game_log(df) ==
    IF IsNone(df) \/ Empty(df)
    THEN None
    ELSE LET cols == [f \in Fields |-> [w \in Range(rolling_windows) |->
                        rolling_mean(Column(df.rows, f), w)]]
             full == [i \in 1..Len(df.rows) |->
                        [index |-> i, row |-> df.rows[i],
                         rolling |-> [f \in Fields |-> [w \in Range(rolling_windows) |->
                                        cols[f][w][i]]]]]
             complete(r) == \A f \in Fields : \A w \in Range(rolling_windows) :
                                IsNumber(r.rolling[f][w])
         IN  DataFrame(SelectSeq(full, complete))

----------------------------------------------------------------------------
(* train_models and the report of main *)

model_names == <<"Random Forest", "Gradient Boosting", "XGBoost", "Neural Network">>

\* Held-out scores a candidate can get, in tenths; model.score is taken to
\* return a number.
ScoreSet == {-2, 3, 5, 7}

\* float('-inf'): below every score.
NegInf == (CHOOSE m \in ScoreSet : \A x \in ScoreSet : m <= x) - 1

\* Variant of Improves that also replaces the best on a tie.
ImprovesOrTies(score, best_score) == score >= best_score

\* Line 180: score > best_score.
Improves(score, best_score) == score > best_score

\* Lines 171-182: the loop over models.items(), in insertion order.
RECURSIVE train_loop(_, _, _, _)
train_loop(scores, i, best, best_score) ==
    IF i > Len(model_names)
    THEN best
    ELSE IF Improves(scores[i], best_score)
         THEN train_loop(scores, i + 1, model_names[i], scores[i])
         ELSE train_loop(scores, i + 1, best, best_score)

\* train_models(X, y), given the score each fitted candidate gets.
train_models(scores) ==
    [best_model |-> train_loop(scores, 1, "None", NegInf),
     results    |-> [i \in 1..Len(model_names) |->
                        [name |-> model_names[i], score |-> scores[i]]]]

\* Python's max(iterable, key=...): the first item no later item exceeds.
RECURSIVE py_max(_, _, _)
py_max(items, i, best) ==
    IF i > Len(items)
    THEN best
    ELSE IF items[i].score > items[best].score
         THEN py_max(items, i + 1, i)
         ELSE py_max(items, i + 1, best)

RECURSIVE SumSeq(_)
SumSeq(xs) == IF xs = <<>> THEN 0 ELSE Head(xs) + SumSeq(Tail(xs))

ColumnSum(df, f) == SumSeq([i \in 1..Len(df.rows) |-> df.rows[i].row[f]])

\* Lines 243-248: sum / sum * factor, on numpy numbers.
impact_metrics(df) ==
    [usage_rate       |-> Div(ColumnSum(df, "MIN"), Len(df.rows)),
     offensive_rating |-> Mul(Div(ColumnSum(df, "FGM"), ColumnSum(df, "FGA")), 100),
     efficiency       |-> Mul(Div(ColumnSum(df, "PTS"), ColumnSum(df, "MIN")), 48)]

NoReport ==
    [shown |-> FALSE, recent_games |-> <<>>,
     impact_metrics |-> [usage_rate |-> NaN, offensive_rating |-> NaN, efficiency |-> NaN],
     best_result |-> "None"]

\* Lines 202-204: the button is pressed and get_player_data is called for
\* the selected player.
Click(p) ==
    /\ main_pc = "button"
    /\ p \in Range(roster)
    /\ main_pc' = "get_player_data"
    /\ gpd_pc' = [gpd_pc EXCEPT ![p] = "get_id"]
    /\ UNCHANGED <<roster, lookup, player_id, season_idx, attempt, gamelogs,
                   future, net_log, cache, clock, warnings, errors>>
    /\ UNCHANGED batch_vars
    /\ UNCHANGED pipeline_vars

\* Lines 206-208: a usable result of get_player_data is preprocessed;
\* without one the run ends there.
Preprocess(p) ==
    /\ main_pc = "get_player_data"
    /\ gpd_pc[p] = "done"
    /\ LET player_df == future[p].value
           usable    == ~IsNone(player_df) /\ ~Empty(player_df)
       IN  /\ main_pc' = IF usable THEN "train" ELSE "end"
           /\ game_log' = IF usable THEN player_df ELSE game_log
           /\ processed_data' = IF usable THEN preprocess_game_log(player_df)
                                ELSE processed_data
    /\ UNCHANGED <<roster, gpd_pc, lookup, player_id, season_idx, attempt,
                   gamelogs, future, net_log, cache, clock, warnings, errors,
                   best_model, model_results, report, call_log>>
    /\ UNCHANGED batch_vars

\* Lines 210-276: with processed rows the models are trained and the
\* report is shown; without, the run ends. train_test_split(test_size=0.2)
\* of a single row leaves no training row and raises; the run then ends in
\* that exception, which the app shows.
Analyze(scores) ==
    /\ main_pc = "train"
    /\ LET reaches == ~IsNone(processed_data) /\ ~Empty(processed_data)
           splits  == reaches /\ Len(processed_data.rows) >= 2
           trained == train_models(scores)
       IN  /\ main_pc' = IF reaches /\ ~splits THEN "crashed" ELSE "end"
           /\ errors' = IF reaches /\ ~splits THEN errors + 1 ELSE errors
           /\ IF splits
              THEN /\ best_model' = trained.best_model
                   /\ model_results' = trained.results
                   /\ report' =
                        [shown |-> TRUE,
                         recent_games |-> SubSeq(processed_data.rows, 1,
                                            IF Len(processed_data.rows) < 5
                                            THEN Len(processed_data.rows) ELSE 5),
                         impact_metrics |-> impact_metrics(processed_data),
                         best_result |-> trained.results[py_max(trained.results, 2, 1)].name]
              ELSE UNCHANGED <<best_model, model_results, report>>
    /\ UNCHANGED <<roster, gpd_pc, lookup, player_id, season_idx, attempt,
                   gamelogs, future, net_log, cache, clock, warnings,
                   game_log, processed_data, call_log>>
    /\ UNCHANGED batch_vars

\* A call of preprocess_game_log on its own.
PreprocessCall ==
    /\ main_pc = "preprocess"
    /\ main_pc' = "preprocessed"
    /\ processed_data' = preprocess_game_log(game_log)
    /\ UNCHANGED <<roster, gpd_pc, lookup, player_id, season_idx, attempt,
                   gamelogs, future, net_log, cache, clock, warnings, errors,
                   game_log, best_model, model_results, report, call_log>>
    /\ UNCHANGED batch_vars

----------------------------------------------------------------------------
(* Initial states *)

EmptyMapping == [q \in {} |-> None]

InitCommon ==
    /\ gpd_pc = [p \in Players |-> "idle"]
    /\ lookup = [p \in Players |-> "pending"]
    /\ player_id = [p \in Players |-> 0]
    /\ season_idx = [p \in Players |-> 1]
    /\ attempt = [p \in Players |-> 0]
    /\ gamelogs = [p \in Players |-> <<>>]
    /\ future = [p \in Players |-> Pending]
    /\ net_log = [p \in Players |-> [i \in 1..Len(seasons) |-> <<>>]]
    /\ cache = [k \in Keys |-> NoEntry]
    /\ clock = 0
    /\ warnings = 0
    /\ errors = 0
    /\ player_data = EmptyMapping
    /\ collected = {}
    /\ writes = [p \in Players |-> 0]
    /\ processed_data = None
    /\ best_model = "None"
    /\ model_results = <<>>
    /\ report = NoReport
    /\ call_log = <<>>

\* A batch over a roster of one, two or three distinct players.
Init ==
    /\ InitCommon
    /\ main_pc = "submit"
    /\ game_log = None
    /\ roster \in { SubSeq(FullRoster, 1, n) : n \in 1..Len(FullRoster) }

Next ==
    \/ Submit
    \/ \E p \in Players : Start(p)
    \/ \E p \in Players : \E r \in IdOutcomes : Resolve(p, r)
    \/ \E p \in Players : \E o \in BatchOutcomes(seasons[season_idx[p]]) : Attempt(p, o)
    \/ \E p \in Players : Finish(p)
    \/ \E p \in Players : Fault(p)
    \/ \E p \in Players : Collect(p)
    \/ Return

Spec == Init /\ [][Next]_vars

\* One run of main for the selected player.
InitMain ==
    /\ InitCommon
    /\ main_pc = "button"
    /\ game_log = None
    /\ roster = <<"p1">>

NextMain ==
    \/ \E p \in Players : Click(p)
    \/ \E p \in Players : \E r \in IdOutcomes : Resolve(p, r)
    \/ \E p \in Players : \E o \in Outcomes(seasons[season_idx[p]]) : Attempt(p, o)
    \/ \E p \in Players : Finish(p)
    \/ \E p \in Players : Preprocess(p)
    \/ \E scores \in [1..Len(model_names) -> ScoreSet] : Analyze(scores)

SpecMain == InitMain /\ [][NextMain]_vars

\* Repeated calls of fetch_player_gamelog, by any caller, half an hour or
\* more apart or back to back, while the upstream data changes.
CacheKeys == { <<1, SEASON_CURRENT>>, <<1, SEASON_PREVIOUS>>, <<2, SEASON_CURRENT>> }

CacheOutcomes(s) ==
    { Ok(<<GameLogRow(s, 30, 5, 10, 12)>>),
      Ok(<<GameLogRow(s, 0, 0, 0, 0), GameLogRow(s, 30, 5, 10, 12)>>),
      Failure("ReadTimeout") }

\* Lines 81-89, called with (player_id, season) = key.
Call(key, o) ==
    /\ main_pc = "calls"
    /\ Len(call_log) < MaxCalls
    /\ LET call == fetch_player_gamelog(key, o)
       IN  /\ cache' = cache_after(key, call)
           /\ errors' = errors + call.errors
           /\ call_log' = Append(call_log,
                    [key |-> key, at |-> clock, value |-> call.value,
                     requested |-> ~call.hit])
    /\ UNCHANGED <<main_pc, roster, gpd_pc, lookup, player_id, season_idx,
                   attempt, gamelogs, future, net_log, clock, warnings,
                   game_log, processed_data, best_model, model_results, report>>
    /\ UNCHANGED batch_vars

\* Half of the TTL passes.
Tick ==
    /\ main_pc = "calls"
    /\ clock < MaxTicks * (CACHE_TTL \div 2)
    /\ clock' = clock + CACHE_TTL \div 2
    /\ UNCHANGED <<main_pc, roster, gpd_pc, lookup, player_id, season_idx,
                   attempt, gamelogs, future, net_log, cache, warnings, errors>>
    /\ UNCHANGED batch_vars
    /\ UNCHANGED pipeline_vars

InitCache ==
    /\ InitCommon
    /\ main_pc = "calls"
    /\ roster = <<>>
    /\ game_log = None

NextCache ==
    \/ \E key \in CacheKeys : \E o \in CacheOutcomes(key[2]) : Call(key, o)
    \/ Tick

SpecCache == InitCache /\ [][NextCache]_vars

\* Game logs of one to MaxLen games whose points follow xs.
SeriesValues == {10, 20}

SeriesTable(xs) ==
    [i \in 1..Len(xs) |->
        GameLogRow(SEASON_CURRENT, 30 - xs[i], xs[i] \div 10, xs[i] \div 5, xs[i])]

InitRoll ==
    /\ InitCommon
    /\ main_pc = "preprocess"
    /\ roster = <<>>
    /\ game_log \in {None} \cup
            { DataFrame(SeriesTable(xs)) : xs \in SeqsUpTo(SeriesValues, MaxLen) }

SpecRoll == InitRoll /\ [][PreprocessCall]_vars

----------------------------------------------------------------------------
(* Properties of the batch (Spec) *)

\* The roster members whose get_player_data call returned non-empty data.
NonEmptyFetches ==
    { p \in Range(roster) :
        /\ future[p].kind = "value"
        /\ ~IsNone(future[p].value)
        /\ ~Empty(future[p].value) }

\* C3: fetch_all_player_data has partial-failure semantics. Whatever each
\* player's call produced (non-empty data, empty data, None, an exception)
\* and in whatever order the calls complete, the batch is never stuck
\* before it returns; every collected player has an entry exactly when
\* its call returned non-empty data; and the returned mapping holds
\* exactly those players, at most one per roster member, each with the
\* non-empty rows its own call returned.
C3_PartialFailure ==
    /\ main_pc # "returned" => ENABLED Next
    /\ \A p \in collected : p \in DOMAIN player_data <=> p \in NonEmptyFetches
    /\ main_pc = "returned" =>
        /\ DOMAIN player_data = NonEmptyFetches
        /\ Cardinality(DOMAIN player_data) <= Len(roster)
        /\ \A p \in DOMAIN player_data :
            /\ player_data[p] = future[p].value
            /\ player_data[p].rows # <<>>

\* A returned batch of three in which one call raised, one returned nothing
\* usable, and the third has its entry.
C3_Witness ==
    /\ main_pc = "returned"
    /\ \E p, q, r \in Range(roster) :
        /\ future[p].kind = "exception"
        /\ future[q].kind = "value"
        /\ IsNone(future[q].value) \/ Empty(future[q].value)
        /\ r \in DOMAIN player_data

\* The scenario of C5: a returned batch over three players, exactly one of
\* them unknown to the catalog, the other two with non-empty data.
C5_Scenario ==
    /\ main_pc = "returned"
    /\ Len(roster) = 3
    /\ Cardinality({p \in Range(roster) : lookup[p] = "notfound"}) = 1
    /\ \A p \in Range(roster) : lookup[p] # "notfound" => p \in NonEmptyFetches

\* C5 (as amended): in that scenario the mapping has exactly 2 entries and
\* exactly two warnings were reported: get_player_id's "not found" and
\* fetch_all_player_data's "No data available" for the same player.
C5_TwoEntriesTwoWarnings ==
    C5_Scenario => Cardinality(DOMAIN player_data) = 2 /\ warnings = 2

\* C5 as stated: exactly 2 entries and exactly one warning.
C5_Original ==
    C5_Scenario => Cardinality(DOMAIN player_data) = 2 /\ warnings = 1

C5_Witness ==
    C5_Scenario /\ Cardinality(DOMAIN player_data) = 2

\* The workers that have populated fetch_player_gamelog's cache.
CacheWriters ==
    { p \in Players : \E s \in Range(seasons) : cache[<<CatalogId(p), s>>].present }

----------------------------------------------------------------------------
(* Properties of get_player_data and of a run of main (SpecMain) *)

\* The outer loop of p's get_player_data call is past season number i.
SeasonFinished(p, i) ==
    /\ lookup[p] = "found"
    /\ \/ season_idx[p] > i
       \/ season_idx[p] = i /\ gpd_pc[p] \in {"concat", "done"}

IsTransient(o) == o.kind \in TransientErrors

\* C1: a season fetch that fails transiently is attempted again, up to 3
\* attempts, 2 seconds apart: once a season is finished, every attempt
\* before its last failed transiently, a fetch whose last attempt failed
\* transiently was attempted exactly 3 times (so one that succeeds on
\* attempt k was attempted k times), and when the call is over 2 seconds
\* were slept per repeated attempt.
C1_RetryUpToBound ==
    /\ \A p \in Players : \A i \in 1..Len(seasons) :
            SeasonFinished(p, i) =>
                LET h == net_log[p][i]
                IN  /\ Len(h) \in 1..3
                    /\ \A k \in 1..(Len(h) - 1) : IsTransient(h[k])
                    /\ IsTransient(h[Len(h)]) => Len(h) = 3
    /\ (\A p \in Players : gpd_pc[p] \in {"idle", "done"}) =>
        clock = 2 * SumSeq([n \in 1..Len(FullRoster) |->
                    SumSeq([i \in 1..Len(seasons) |->
                        IF net_log[FullRoster[n]][i] = <<>> THEN 0
                        ELSE Len(net_log[FullRoster[n]][i]) - 1])])

\* Season number i of p's call delivered a game log.
SeasonSucceeded(p, i) ==
    /\ net_log[p][i] # <<>>
    /\ net_log[p][i][Len(net_log[p][i])].kind = "ok"

\* The rows of the successful seasons, in the order requested.
RECURSIVE SuccessfulRows(_, _)
SuccessfulRows(p, i) ==
    IF i > Len(seasons)
    THEN <<>>
    ELSE (IF SeasonSucceeded(p, i)
          THEN net_log[p][i][Len(net_log[p][i])].rows
          ELSE <<>>) \o SuccessfulRows(p, i + 1)

\* C2: season failures are isolated. For a player whose identity resolved,
\* whatever each season's fetch did, get_player_data returns the rows of
\* the seasons that succeeded, concatenated in the order requested, and
\* returns None exactly when no season succeeded.
C2_SeasonIsolation ==
    \A p \in Players :
        lookup[p] = "found" /\ future[p].kind = "value" =>
            IF \E i \in 1..Len(seasons) : SeasonSucceeded(p, i)
            THEN future[p].value = DataFrame(SuccessfulRows(p, 1))
            ELSE future[p].value = None

\* The first season failed transiently, the second delivered rows, and
\* those rows are the result.
C2_Witness ==
    \E p \in Players :
        /\ future[p].kind = "value"
        /\ net_log[p][1] # <<>> /\ IsTransient(net_log[p][1][Len(net_log[p][1])])
        /\ SeasonSucceeded(p, 2)
        /\ ~Empty(future[p].value)
        /\ future[p].value.rows = net_log[p][2][Len(net_log[p][2])].rows

\* The candidate a first-occurrence-of-the-maximum rule selects.
FirstMax(items) ==
    CHOOSE i \in 1..Len(items) :
        /\ \A j \in 1..Len(items) : items[j].score <= items[i].score
        /\ \A j \in 1..(i - 1) : items[j].score < items[i].score

Zero == Div(0, 1)

\* C8: every ratio of the report is guarded against a zero denominator:
\* with no field-goal attempts the offensive rating is 0, with no minutes
\* the efficiency is 0, and every metric shown is a number.
C8_RatiosGuarded ==
    report.shown =>
        /\ ColumnSum(processed_data, "FGA") = 0 =>
                report.impact_metrics.offensive_rating = Zero
        /\ ColumnSum(processed_data, "MIN") = 0 =>
                report.impact_metrics.efficiency = Zero
        /\ IsNumber(report.impact_metrics.usage_rate)
        /\ IsNumber(report.impact_metrics.offensive_rating)
        /\ IsNumber(report.impact_metrics.efficiency)

\* C9: no failure is silently swallowed: a run of main that ends without
\* a report has reported at least one warning or error.
C9_NoSilentFailure ==
    main_pc = "end" /\ ~report.shown => warnings + errors >= 1

----------------------------------------------------------------------------
(* Properties of preprocess_game_log (SpecRoll) *)

Min(a, b) == IF a < b THEN a ELSE b

\* C6: for a non-empty game log no row is dropped, and for every base
\* field, every window w and every row i (counted from 1) the rolling
\* value is the mean of the Min(i, w) most recent values of the field up
\* to and including row i; values 10, 20 give rolling-3 means 10 and 15.
C6_RollingMean ==
    main_pc = "preprocessed" /\ ~IsNone(game_log) /\ ~Empty(game_log) =>
        /\ ~IsNone(processed_data)
        /\ Len(processed_data.rows) = Len(game_log.rows)
        /\ \A i \in 1..Len(processed_data.rows) :
            /\ processed_data.rows[i].index = i
            /\ processed_data.rows[i].row = game_log.rows[i]
            /\ \A f \in Fields : \A w \in {3, 5, 10} :
                LET k    == Min(i, w)
                    last == SubSeq(Column(game_log.rows, f), i - k + 1, i)
                    r    == processed_data.rows[i].rolling[f][w]
                IN  /\ IsNumber(r)
                    /\ r.num * k = SumSeq(last) * r.den
        /\ \A f \in Fields :
            Column(game_log.rows, f) = <<10, 20>> =>
                /\ processed_data.rows[1].rolling[f][3] = Div(10, 1)
                /\ processed_data.rows[2].rolling[f][3] = Div(15, 1)

\* A game log longer than the widest window was processed: its points
\* start 10, 20, so the second row averages two games, and the eleventh
\* row's window of 10 has left the first game behind.
C6_Witness ==
    /\ main_pc = "preprocessed"
    /\ ~IsNone(processed_data)
    /\ Len(processed_data.rows) > 10
    /\ SubSeq(Column(game_log.rows, "PTS"), 1, 2) = <<10, 20>>
    /\ processed_data.rows[2].rolling["PTS"][3] = Div(15, 1)
    /\ Column(game_log.rows, "PTS")[11] = 20
    /\ processed_data.rows[11].rolling["PTS"][10] #
            processed_data.rows[10].rolling["PTS"][10]

----------------------------------------------------------------------------
(* Properties of the fetch_player_gamelog cache (SpecCache) *)

\* C4: fetch_player_gamelog is idempotent within the cache TTL. After a
\* call for (player_id, season) that went to the network, every later call
\* for the same pair made less than 3600 seconds after it returns the
\* value that call returned and issues no request, whatever calls for
\* other pairs come in between.
C4_IdempotentWithinTTL ==
    \A i, j \in 1..Len(call_log) :
        /\ i < j
        /\ call_log[i].key = call_log[j].key
        /\ call_log[i].requested
        /\ call_log[j].at < call_log[i].at + 3600
        => /\ call_log[j].value = call_log[i].value
           /\ ~call_log[j].requested

\* A failed first call, a call for another pair, and half an hour later a
\* repeated call that is served without a request.
C4_Witness ==
    /\ Len(call_log) = 3
    /\ call_log[1].key = call_log[3].key
    /\ call_log[2].key # call_log[1].key
    /\ call_log[1].requested
    /\ IsNone(call_log[1].value)
    /\ call_log[3].at > call_log[1].at
    /\ call_log[3].at < call_log[1].at + 3600
    /\ ~call_log[3].requested

====
